---- MODULE Spec2Model ----
(***************************************************************************)
(* State-machine model of the two scripts of the repository:               *)
(*   src/docs/files/invoice_generator.py  (batch PDF invoice generator)    *)
(*   src/app/start_server.py              (static asset server)            *)
(*                                                                         *)
(* Python's float is an IEEE-754 binary64.  Every monetary value of the    *)
(* invoice generator is such a float, so the model carries floats as       *)
(* exact pairs [m, e] (value m * 2^e, m a 53-bit natural held in 15-bit    *)
(* limbs, least significant first) and rounds every operation to nearest,  *)
(* ties to even, as the hardware does.                                     *)
(***************************************************************************)
EXTENDS Integers, Sequences, FiniteSets, TLC

(***************************************************************************)
(* Natural numbers of any size: sequences of limbs, least significant      *)
(* first, no leading (most significant) zero limb; <<>> is 0.              *)
(***************************************************************************)
LimbBits == 15
Base == 2^LimbBits

Pow2(k) == 2^k

Min(a, b) == IF a < b THEN a ELSE b

Max(a, b) == IF a > b THEN a ELSE b

Limb(a, i) == IF i <= Len(a) THEN a[i] ELSE 0

RECURSIVE BNorm(_)
BNorm(a) ==
  IF a = <<>> THEN a
  ELSE IF a[Len(a)] = 0 THEN BNorm(SubSeq(a, 1, Len(a) - 1))
  ELSE a

RECURSIVE BFromInt(_)
BFromInt(n) == IF n = 0 THEN <<>> ELSE <<n % Base>> \o BFromInt(n \div Base)

RECURSIVE BToInt(_)
BToInt(a) == IF a = <<>> THEN 0 ELSE a[1] + Base * BToInt(Tail(a))

RECURSIVE BAddC(_, _, _, _)
BAddC(a, b, i, c) ==
  IF i > Len(a) /\ i > Len(b)
  THEN (IF c = 0 THEN <<>> ELSE <<c>>)
  ELSE LET s == Limb(a, i) + Limb(b, i) + c
       IN  <<s % Base>> \o BAddC(a, b, i + 1, s \div Base)

BAdd(a, b) == BAddC(a, b, 1, 0)

\* a - b for a >= b
RECURSIVE BSubC(_, _, _, _)
BSubC(a, b, i, c) ==
  IF i > Len(a) THEN <<>>
  ELSE LET s == Limb(a, i) - Limb(b, i) - c
       IN  IF s < 0 THEN <<s + Base>> \o BSubC(a, b, i + 1, 1)
           ELSE <<s>> \o BSubC(a, b, i + 1, 0)

BSub(a, b) == BNorm(BSubC(a, b, 1, 0))

\* -1, 0, 1 as a < b, a = b, a > b
RECURSIVE BCmpAt(_, _, _)
BCmpAt(a, b, i) ==
  IF i = 0 THEN 0
  ELSE IF a[i] < b[i] THEN -1
  ELSE IF a[i] > b[i] THEN 1
  ELSE BCmpAt(a, b, i - 1)

BCmp(a, b) ==
  IF Len(a) < Len(b) THEN -1
  ELSE IF Len(a) > Len(b) THEN 1
  ELSE BCmpAt(a, b, Len(a))

\* a * k for 0 <= k <= Base
RECURSIVE BMulSmallC(_, _, _, _)
BMulSmallC(a, k, i, c) ==
  IF i > Len(a)
  THEN (IF c = 0 THEN <<>> ELSE <<c>>)
  ELSE LET s == a[i] * k + c
       IN  <<s % Base>> \o BMulSmallC(a, k, i + 1, s \div Base)

BMulSmall(a, k) == IF k = 0 THEN <<>> ELSE BMulSmallC(a, k, 1, 0)

Zeros(n) == [i \in 1..n |-> 0]

RECURSIVE BMulAt(_, _, _)
BMulAt(a, b, i) ==
  IF i > Len(b) THEN <<>>
  ELSE BAdd(IF b[i] = 0 THEN <<>> ELSE Zeros(i - 1) \o BMulSmall(a, b[i]),
            BMulAt(a, b, i + 1))

BMul(a, b) == IF a = <<>> \/ b = <<>> THEN <<>> ELSE BMulAt(a, b, 1)

\* long division of a by k, 0 < k <= Base, from limb i down with remainder r
\* carried in and the quotient limbs q found so far: <<quotient, remainder>>
RECURSIVE BDivSmallAt(_, _, _, _, _)
BDivSmallAt(a, k, i, r, q) ==
  IF i = 0 THEN <<BNorm(q), r>>
  ELSE BDivSmallAt(a, k, i - 1, (r * Base + a[i]) % k,
                   <<(r * Base + a[i]) \div k>> \o q)

BDivSmall(a, k) == BDivSmallAt(a, k, Len(a), 0, <<>>)

BShl(a, k) ==
  IF a = <<>> THEN a
  ELSE Zeros(k \div LimbBits) \o BMulSmall(a, Pow2(k % LimbBits))

BShr(a, k) ==
  IF Len(a) <= k \div LimbBits THEN <<>>
  ELSE BDivSmall(SubSeq(a, (k \div LimbBits) + 1, Len(a)), Pow2(k % LimbBits))[1]

\* a mod 2^k
BLowBits(a, k) ==
  LET n == k \div LimbBits
  IN  IF Len(a) <= n THEN a
      ELSE BNorm(SubSeq(a, 1, n) \o <<a[n + 1] % Pow2(k % LimbBits)>>)

RECURSIVE IntBitLen(_)
IntBitLen(n) == IF n = 0 THEN 0 ELSE 1 + IntBitLen(n \div 2)

BBitLen(a) ==
  IF a = <<>> THEN 0 ELSE (Len(a) - 1) * LimbBits + IntBitLen(a[Len(a)])

BIsOdd(a) == a # <<>> /\ a[1] % 2 = 1

\* the integer nearest to n / 2^k, ties to the even one
BRoundUp(q, cmp, sticky) ==
  IF cmp > 0 \/ (cmp = 0 /\ (sticky \/ BIsOdd(q))) THEN BAdd(q, <<1>>) ELSE q

BRoundShr(n, k, sticky) ==
  IF k = 0 THEN n
  ELSE BRoundUp(BShr(n, k), BCmp(BLowBits(n, k), BShl(<<1>>, k - 1)), sticky)

(***************************************************************************)
(* binary64 values >= 0: [m |-> limbs, e |-> exponent], value m * 2^e,     *)
(* m = 0 (with e = 0) or 2^52 <= m < 2^53.  No value of the program        *)
(* leaves the normal range.                                                *)
(***************************************************************************)
MantBits == 53

FZero == [m |-> <<>>, e |-> 0]

\* n * 2^e (plus something below one unit of n when sticky) rounded to a float
\* q * 2^e with q <= 2^53: rounding up may carry into a 54th bit
FCarry(q, e) ==
  IF BBitLen(q) > MantBits THEN [m |-> BShr(q, 1), e |-> e + 1]
  ELSE [m |-> q, e |-> e]

FRoundLen(n, e, sticky, len) ==
  IF len = 0 THEN FZero
  ELSE IF len <= MantBits
  THEN [m |-> BShl(n, MantBits - len), e |-> e - (MantBits - len)]
  ELSE FCarry(BRoundShr(n, len - MantBits, sticky), e + (len - MantBits))

FRound(n, e, sticky) == FRoundLen(n, e, sticky, BBitLen(n))

FFromInt(n) == FRound(BFromInt(n), 0, FALSE)

\* the float nearest to n / d (n limbs, 0 < d <= Base): a decimal literal
FQuotient(qr, k) == FRound(qr[1], -k, qr[2] # 0)

FScaledRatio(n, d, k) == FQuotient(BDivSmall(BShl(n, k), d), k)

FFromRatio(n, d) ==
  IF n = <<>> THEN FZero
  ELSE FScaledRatio(n, d, Max(MantBits + 2 + IntBitLen(d) - BBitLen(n), 0))

FMul(x, y) == FRound(BMul(x.m, y.m), x.e + y.e, FALSE)

FAddAt(x, y, e) ==
  FRound(BAdd(BShl(x.m, x.e - e), BShl(y.m, y.e - e)), e, FALSE)

FAdd(x, y) ==
  IF x.m = <<>> THEN y
  ELSE IF y.m = <<>> THEN x
  ELSE FAddAt(x, y, Min(x.e, y.e))

\* x * 100 rounded to the nearest integer, ties to even: the digits that
\* round(x, 2) and the format ".2f" both take from x
Hundredths(x) ==
  IF x.e >= 0 THEN BShl(BMulSmall(x.m, 100), x.e)
  ELSE BRoundShr(BMulSmall(x.m, 100), -x.e, FALSE)

\* Python's round(x, 2): the float nearest to the 2-digit decimal nearest to x
round2(x) == FFromRatio(Hundredths(x), 100)

\* a two-decimal float literal of the source, written in hundredths:
\* Dec(1485) is the float that Python reads from the text 14.85
Dec(hundredths) == FFromRatio(BFromInt(hundredths), 100)

(***************************************************************************)
(* The tables of invoice_generator.py.  A catalog entry is                 *)
(* <<item_code, description, pack, unit_price>>; a line item is            *)
(* <<item_code, description, pack, quantity, unit_price>>.                 *)
(***************************************************************************)
SUPPLIERS ==
  "norref" :> [name |-> "Les Pêcheries Norref Québec Inc.",
      tagline |-> "Une division de Colabor",
      address |-> "4900, rue Molson",
      city |-> "Montréal, QC H1Y 3J4",
      phone |-> "514-906-0931",
      fax |-> "514-906-0935",
      website |-> "norref.com",
      gst |-> "845 291 567 RT0001",
      qst |-> "1214 567 890 TQ0001",
      terms |-> "Net 14 jours / Net 14 Days"] @@
  "distrobec" :> [name |-> "Les Aliments Distrobec Inc.",
      tagline |-> "Viandes de qualité supérieure",
      address |-> "9350, boul. Henri-Bourassa Est",
      city |-> "Montréal, QC H1E 2S4",
      phone |-> "514-648-2600",
      fax |-> "514-648-8822",
      website |-> "distrobec.com",
      gst |-> "723 456 891 RT0001",
      qst |-> "1198 234 567 TQ0001",
      terms |-> "Net 21 jours / Net 21 Days"] @@
  "courchesne" :> [name |-> "Courchesne Larose Ltée",
      tagline |-> "La qualité depuis 1918",
      address |-> "9001, boul. des Sciences",
      city |-> "Anjou, QC H1J 1H5",
      phone |-> "514-352-4001",
      fax |-> "514-352-4191",
      website |-> "courchesnelarose.com",
      gst |-> "891 234 567 RT0001",
      qst |-> "1245 678 901 TQ0001",
      terms |-> "Net 14 jours / Net 14 Days"] @@
  "carrousel" :> [name |-> "Carrousel Emballage Inc.",
      tagline |-> "Solutions d'emballage depuis 1971",
      address |-> "8585, boul. Langelier",
      city |-> "Saint-Léonard, QC H1P 2C7",
      phone |-> "514-327-6222",
      fax |-> "514-327-6891",
      website |-> "carrousel.ca",
      gst |-> "567 891 234 RT0001",
      qst |-> "1167 890 123 TQ0001",
      terms |-> "Net 30 jours / Net 30 Days"]

CUSTOMER ==
  [name |-> "Bistro Le Gourmet Inc.",
   attention |-> "Chef Marc-André Tremblay",
   address |-> "1234, rue Sainte-Catherine Est",
   city |-> "Montréal, QC H2L 2H5",
   phone |-> "514-555-1234",
   customer_no |-> "MTL-458923"]

SEAFOOD_PRODUCTS ==
  <<
    <<"SF-10234", "SAUMON ATLANTIQUE FRAIS 10-12LB", "1/PC", Dec(1485)>>,
    <<"SF-10241", "SAUMON ATLANTIQUE FILET S/P", "KG", Dec(2250)>>,
    <<"SF-10312", "TRUITE ARC-EN-CIEL PORTION 6OZ", "1/10LB", Dec(4575)>>,
    <<"SF-10425", "CREVETTES 16/20 TIGRE CRUES", "2/5LB", Dec(8950)>>,
    <<"SF-10426", "CREVETTES 21/25 TIGRE CUITES", "2/5LB", Dec(7825)>>,
    <<"SF-10512", "HOMARD VIVANT 1.25LB", "PC", Dec(2895)>>,
    <<"SF-10623", "MOULES DE L'IPE 2LB", "1/2LB", Dec(845)>>,
    <<"SF-10731", "PÉTONCLES U10 DRY PACK", "1/5LB", Dec(12500)>>,
    <<"SF-10745", "PÉTONCLES 20/30 IQF", "2/5LB", Dec(6850)>>,
    <<"SF-10821", "FILET MORUE FRAÎCHE", "KG", Dec(1875)>>,
    <<"SF-10834", "FILET AIGLEFIN FRAIS", "KG", Dec(1950)>>,
    <<"SF-10912", "THON ALBACORE LOIN AAA", "KG", Dec(3850)>>,
    <<"SF-11023", "CALMAR TUBE & TENTACULE", "2/2.5KG", Dec(3275)>>,
    <<"SF-11134", "CRABE DORMEUR SECT.", "1/5LB", Dec(4250)>>,
    <<"SF-11245", "HUÎTRES MALPEQUE #1", "100CT", Dec(8500)>>
  >>

MEAT_PRODUCTS ==
  <<
    <<"VD-20145", "BOEUF AAA FILET MIGNON 8OZ", "1/10LB", Dec(18500)>>,
    <<"VD-20156", "BOEUF AAA CÔTE DE BOEUF", "KG", Dec(3250)>>,
    <<"VD-20234", "BOEUF AAA BAVETTE MARINÉE", "2/5KG", Dec(8975)>>,
    <<"VD-20312", "BOEUF HACHÉ MI-MAIGRE", "2/5KG", Dec(4250)>>,
    <<"VD-20345", "BOEUF AAA STRIPLOIN", "KG", Dec(2875)>>,
    <<"VD-30123", "VEAU ESCALOPE 4OZ", "1/5KG", Dec(12500)>>,
    <<"VD-30156", "VEAU OSSO BUCO 2\"", "1/10KG", Dec(9550)>>,
    <<"VD-30234", "VEAU CÔTELETTE FRENCHED", "1/5KG", Dec(14500)>>,
    <<"VD-40123", "PORC LONGE DÉSOSSÉE", "KG", Dec(1285)>>,
    <<"VD-40234", "PORC CÔTE LEVÉE BB", "1/20KG", Dec(11850)>>,
    <<"VD-40312", "PORC BACON TRANCHÉ", "5KG", Dec(4575)>>,
    <<"VD-50123", "AGNEAU CARRÉ FRENCHED", "1/PC", Dec(6850)>>,
    <<"VD-50234", "AGNEAU GIGOT DÉSOSSÉ", "KG", Dec(2475)>>,
    <<"VD-60123", "CANARD MAGRET FRAIS", "1/PC", Dec(1895)>>,
    <<"VD-60234", "CANARD CUISSE CONFITE", "4/12PC", Dec(8500)>>,
    <<"VD-70123", "POULET POITRINE S/P S/O", "2/5KG", Dec(5250)>>,
    <<"VD-70234", "POULET CUISSE DÉSOSSÉE", "2/5KG", Dec(3875)>>
  >>

PRODUCE_PRODUCTS ==
  <<
    <<"CL-80123", "TOMATE ITALIENNE CAISSE", "1/25LB", Dec(2850)>>,
    <<"CL-80134", "TOMATE CERISE ROUGE", "12/DRY PT", Dec(3275)>>,
    <<"CL-80145", "TOMATE GRAPE MIXTE", "12/DRY PT", Dec(3550)>>,
    <<"CL-80212", "LAITUE ROMAINE 24CT", "1/24CT", Dec(3875)>>,
    <<"CL-80223", "MESCLUN BIO", "4/2.5LB", Dec(4250)>>,
    <<"CL-80234", "ÉPINARD BÉBÉ", "4/2.5LB", Dec(3825)>>,
    <<"CL-80312", "CAROTTE NANTAISE", "1/50LB", Dec(3250)>>,
    <<"CL-80323", "CAROTTE BÉBÉ PELÉE", "4/5LB", Dec(2875)>>,
    <<"CL-80412", "OIGNON ESPAGNOL JUMBO", "1/50LB", Dec(2550)>>,
    <<"CL-80423", "OIGNON ROUGE", "1/25LB", Dec(2275)>>,
    <<"CL-80434", "ÉCHALOTE FRANÇAISE", "1/5KG", Dec(4500)>>,
    <<"CL-80512", "POMME DE TERRE IDAHO", "1/50LB", Dec(2895)>>,
    <<"CL-80523", "POMME DE TERRE GRELOT", "1/50LB", Dec(3550)>>,
    <<"CL-80612", "POIVRON ROUGE", "1/25LB", Dec(5250)>>,
    <<"CL-80623", "POIVRON JAUNE", "1/25LB", Dec(5575)>>,
    <<"CL-80634", "POIVRON VERT", "1/25LB", Dec(2850)>>,
    <<"CL-80712", "CHAMPIGNON BLANC TRANCHÉ", "4/5LB", Dec(4250)>>,
    <<"CL-80723", "CHAMPIGNON CREMINI", "4/5LB", Dec(4875)>>,
    <<"CL-80734", "CHAMPIGNON SHIITAKE", "1/5LB", Dec(3250)>>,
    <<"CL-80812", "BROCOLI COURONNE", "14CT", Dec(2875)>>,
    <<"CL-80823", "CHOU-FLEUR", "12CT", Dec(3250)>>,
    <<"CL-80912", "COURGETTE VERTE", "1/22LB", Dec(2450)>>,
    <<"CL-80923", "AUBERGINE ITALIENNE", "1/22LB", Dec(2875)>>,
    <<"CL-81012", "AIL PELÉ ENTIER", "6/3LB", Dec(4250)>>,
    <<"CL-81023", "GINGEMBRE FRAIS", "1/30LB", Dec(6500)>>,
    <<"CL-81112", "HERBES FRAÎCHES MIXTES", "12CT", Dec(2850)>>,
    <<"CL-81123", "BASILIC FRAIS", "12CT", Dec(2275)>>,
    <<"CL-81134", "CORIANDRE FRAÎCHE", "30CT", Dec(1850)>>
  >>

PACKAGING_PRODUCTS ==
  <<
    <<"CE-90123", "CONTENANT ALUM. 2.25LB RECT", "1/500", Dec(6550)>>,
    <<"CE-90134", "CONTENANT ALUM. 1LB ROND", "1/500", Dec(5275)>>,
    <<"CE-90145", "COUVERCLE ALUM. 2.25LB", "1/500", Dec(3850)>>,
    <<"CE-90212", "SAC SOUS-VIDE 8X12", "1/1000", Dec(4575)>>,
    <<"CE-90223", "SAC SOUS-VIDE 10X14", "1/1000", Dec(5850)>>,
    <<"CE-90312", "FILM ÉTIRABLE 18\"", "4/RL", Dec(8500)>>,
    <<"CE-90323", "PAPIER CIRÉ 12\"", "6/RL", Dec(7250)>>,
    <<"CE-90412", "BOÎTE PIZZA 12\" KRAFT", "1/50", Dec(4250)>>,
    <<"CE-90423", "BOÎTE PIZZA 16\" KRAFT", "1/50", Dec(5575)>>,
    <<"CE-90512", "CONTENANT CLAM 8X8 3COMP", "1/200", Dec(6850)>>,
    <<"CE-90523", "CONTENANT CLAM 9X9 1COMP", "1/200", Dec(5275)>>,
    <<"CE-90612", "BOL SOUPE 16OZ + COUV", "1/250", Dec(4550)>>,
    <<"CE-90623", "BOL SOUPE 32OZ + COUV", "1/250", Dec(5875)>>,
    <<"CE-90712", "USTENSILES COMBO HVY", "1/500", Dec(7250)>>,
    <<"CE-90723", "SERVIETTE DÎNER 2PLY", "1/3000", Dec(4500)>>,
    <<"CE-90812", "GANTS NITRILE M", "10/100", Dec(8550)>>,
    <<"CE-90823", "GANTS NITRILE L", "10/100", Dec(8550)>>,
    <<"CE-90912", "SAC POUBELLE 35X50 BLK", "1/100", Dec(3575)>>,
    <<"CE-91012", "DÉGRAISSEUR CONCENTRÉ", "4/4L", Dec(4850)>>,
    <<"CE-91023", "DÉSINFECTANT QUAT", "4/4L", Dec(5275)>>
  >>

seafood_items ==
  <<
    <<"SF-10234", "SAUMON ATLANTIQUE FRAIS 10-12LB", "1/PC", 3, Dec(1485)>>,
    <<"SF-10241", "SAUMON ATLANTIQUE FILET S/P", "KG", 8, Dec(2250)>>,
    <<"SF-10425", "CREVETTES 16/20 TIGRE CRUES", "2/5LB", 4, Dec(8950)>>,
    <<"SF-10426", "CREVETTES 21/25 TIGRE CUITES", "2/5LB", 3, Dec(7825)>>,
    <<"SF-10512", "HOMARD VIVANT 1.25LB", "PC", 12, Dec(2895)>>,
    <<"SF-10623", "MOULES DE L'IPE 2LB", "1/2LB", 20, Dec(845)>>,
    <<"SF-10731", "PÉTONCLES U10 DRY PACK", "1/5LB", 2, Dec(12500)>>,
    <<"SF-10821", "FILET MORUE FRAÎCHE", "KG", 5, Dec(1875)>>,
    <<"SF-10912", "THON ALBACORE LOIN AAA", "KG", 4, Dec(3850)>>,
    <<"SF-11245", "HUÎTRES MALPEQUE #1", "100CT", 2, Dec(8500)>>
  >>

meat_items ==
  <<
    <<"VD-20145", "BOEUF AAA FILET MIGNON 8OZ", "1/10LB", 2, Dec(18500)>>,
    <<"VD-20156", "BOEUF AAA CÔTE DE BOEUF", "KG", 15, Dec(3250)>>,
    <<"VD-20234", "BOEUF AAA BAVETTE MARINÉE", "2/5KG", 3, Dec(8975)>>,
    <<"VD-20312", "BOEUF HACHÉ MI-MAIGRE", "2/5KG", 5, Dec(4250)>>,
    <<"VD-30123", "VEAU ESCALOPE 4OZ", "1/5KG", 2, Dec(12500)>>,
    <<"VD-30156", "VEAU OSSO BUCO 2\"", "1/10KG", 1, Dec(9550)>>,
    <<"VD-40123", "PORC LONGE DÉSOSSÉE", "KG", 10, Dec(1285)>>,
    <<"VD-40234", "PORC CÔTE LEVÉE BB", "1/20KG", 2, Dec(11850)>>,
    <<"VD-50123", "AGNEAU CARRÉ FRENCHED", "1/PC", 6, Dec(6850)>>,
    <<"VD-60123", "CANARD MAGRET FRAIS", "1/PC", 10, Dec(1895)>>,
    <<"VD-70123", "POULET POITRINE S/P S/O", "2/5KG", 4, Dec(5250)>>
  >>

produce_items ==
  <<
    <<"CL-80123", "TOMATE ITALIENNE CAISSE", "1/25LB", 4, Dec(2850)>>,
    <<"CL-80134", "TOMATE CERISE ROUGE", "12/DRY PT", 2, Dec(3275)>>,
    <<"CL-80212", "LAITUE ROMAINE 24CT", "1/24CT", 3, Dec(3875)>>,
    <<"CL-80223", "MESCLUN BIO", "4/2.5LB", 2, Dec(4250)>>,
    <<"CL-80234", "ÉPINARD BÉBÉ", "4/2.5LB", 2, Dec(3825)>>,
    <<"CL-80312", "CAROTTE NANTAISE", "1/50LB", 2, Dec(3250)>>,
    <<"CL-80412", "OIGNON ESPAGNOL JUMBO", "1/50LB", 3, Dec(2550)>>,
    <<"CL-80434", "ÉCHALOTE FRANÇAISE", "1/5KG", 2, Dec(4500)>>,
    <<"CL-80512", "POMME DE TERRE IDAHO", "1/50LB", 4, Dec(2895)>>,
    <<"CL-80612", "POIVRON ROUGE", "1/25LB", 3, Dec(5250)>>,
    <<"CL-80634", "POIVRON VERT", "1/25LB", 2, Dec(2850)>>,
    <<"CL-80712", "CHAMPIGNON BLANC TRANCHÉ", "4/5LB", 3, Dec(4250)>>,
    <<"CL-80812", "BROCOLI COURONNE", "14CT", 2, Dec(2875)>>,
    <<"CL-81012", "AIL PELÉ ENTIER", "6/3LB", 2, Dec(4250)>>,
    <<"CL-81123", "BASILIC FRAIS", "12CT", 3, Dec(2275)>>
  >>

packaging_items ==
  <<
    <<"CE-90123", "CONTENANT ALUM. 2.25LB RECT", "1/500", 2, Dec(6550)>>,
    <<"CE-90134", "CONTENANT ALUM. 1LB ROND", "1/500", 1, Dec(5275)>>,
    <<"CE-90145", "COUVERCLE ALUM. 2.25LB", "1/500", 2, Dec(3850)>>,
    <<"CE-90212", "SAC SOUS-VIDE 8X12", "1/1000", 1, Dec(4575)>>,
    <<"CE-90312", "FILM ÉTIRABLE 18\"", "4/RL", 3, Dec(8500)>>,
    <<"CE-90323", "PAPIER CIRÉ 12\"", "6/RL", 2, Dec(7250)>>,
    <<"CE-90512", "CONTENANT CLAM 8X8 3COMP", "1/200", 2, Dec(6850)>>,
    <<"CE-90612", "BOL SOUPE 16OZ + COUV", "1/250", 3, Dec(4550)>>,
    <<"CE-90714", "USTENSILES COMBO HVY", "1/500", 1, Dec(7250)>>,
    <<"CE-90723", "SERVIETTE DÎNER 2PLY", "1/3000", 2, Dec(4500)>>,
    <<"CE-90812", "GANTS NITRILE M", "10/100", 1, Dec(8550)>>,
    <<"CE-90912", "SAC POUBELLE 35X50 BLK", "1/100", 3, Dec(3575)>>
  >>

(***************************************************************************)
(* Text formatting.                                                        *)
(***************************************************************************)
Digits2(n) == IF n < 10 THEN "0" \o ToString(n) ELSE ToString(n)

Digits3(n) == IF n < 100 THEN "0" \o Digits2(n) ELSE ToString(n)

\* the "," option of the format: groups of three digits
RECURSIVE Grouped(_)
Grouped(n) ==
  IF n < 1000 THEN ToString(n)
  ELSE Grouped(n \div 1000) \o "," \o Digits3(n % 1000)

\* format(x, ",.2f")
Fixed2(x) ==
  LET digits(h) == Grouped(h \div 100) \o "." \o Digits2(h % 100)
  IN  digits(BToInt(Hundredths(x)))

\* f"${x:,.2f}"
Money(x) == "$" \o Fixed2(x)

RECURSIVE Spaces(_)
Spaces(n) == IF n <= 0 THEN "" ELSE " " \o Spaces(n - 1)

\* f"{s:30}" and f"{s:>10}"
PadRight(s, n) == s \o Spaces(n - Len(s))

PadLeft(s, n) == Spaces(n - Len(s)) \o s

\* an argument that may be omitted, or None: <<>> when absent, <<v>> when given
None == <<>>

Some(v) == <<v>>

(***************************************************************************)
(* The drawing functions.  The canvas is write-only, so each function is   *)
(* modelled by what it draws (a record of texts and rectangles, a          *)
(* rectangle being <<x, y, width, height>> in points) and what it returns. *)
(***************************************************************************)
letter == <<612, 792>>

draw_header(width, height, supplier_key, invoice_num, invoice_date, po_num) ==
  LET supplier == SUPPLIERS[supplier_key]
      box_y    == height - 200
  IN  [bar     |-> <<0, height - 90, width, 90>>,
       name    |-> supplier.name,
       tagline |-> supplier.tagline,
       contact |-> <<0, height - 118, width, 28>>,
       contact_line |-> supplier.address \o " | " \o supplier.city \o " | Tél: "
                        \o supplier.phone \o " | " \o supplier.website,
       box     |-> <<400, box_y, 170, 75>>,
       details |-> << <<box_y + 60, "No Facture / Invoice #:", invoice_num>>,
                      <<box_y + 45, "Date:", invoice_date>>,
                      <<box_y + 30, "No Client / Customer #:", CUSTOMER.customer_no>>,
                      <<box_y + 15, "No Commande / PO #:", po_num>> >>,
       y       |-> height - 130]

draw_addresses(y_start, supplier_key) ==
  [bill_to |-> << <<y_start, "FACTURER À / BILL TO:">>,
                  <<y_start - 15, CUSTOMER.name>>,
                  <<y_start - 27, "À l'att: " \o CUSTOMER.attention>>,
                  <<y_start - 39, CUSTOMER.address>>,
                  <<y_start - 51, CUSTOMER.city>> >>,
   ship_to |-> << <<y_start, "LIVRER À / SHIP TO:">>,
                  <<y_start - 15, CUSTOMER.name>>,
                  <<y_start - 27, CUSTOMER.address>>,
                  <<y_start - 39, CUSTOMER.city>>,
                  <<y_start - 51, "Tél: " \o CUSTOMER.phone>> >>,
   y       |-> y_start - 70]

\* extended = qty * unit_price: the int is converted to float, then multiplied
extended_amount(qty, unit_price) == FMul(FFromInt(qty), unit_price)

\* a slip: the test is made against the length kept, not against 32
truncate_description_over_30(desc) ==
  IF Len(desc) > 30 THEN SubSeq(desc, 1, 30) \o ".." ELSE desc

\* the description as drawn
truncate_description(desc) ==
  IF Len(desc) > 32 THEN SubSeq(desc, 1, 30) \o ".." ELSE desc

\* one pass of the loop body: the row drawn for item at height y
draw_row(item, y, row_num, width) ==
  LET code       == item[1]
      desc       == item[2]
      pack       == item[3]
      qty        == item[4]
      unit_price == item[5]
      extended   == extended_amount(item[4], item[5])
  IN  [shade      |-> IF row_num % 2 = 0 THEN Some(<<30, y - 4, width - 60, 14>>)
                      ELSE None,
       y          |-> y,
       code       |-> code,
       desc       |-> truncate_description(desc),
       pack       |-> pack,
       qty        |-> ToString(qty),
       unit_price |-> Money(unit_price),
       extended   |-> Money(extended)]

\* a slip: "subtotal = extended" for "subtotal += extended"
accumulate_overwrites(subtotal, extended) == extended

\* subtotal += extended
accumulate(subtotal, extended) == FAdd(subtotal, extended)

\* the loop "for item in items", from item i on
RECURSIVE line_item_loop(_, _, _, _, _)
line_item_loop(items, i, y, subtotal, width) ==
  IF i > Len(items) THEN [y |-> y, subtotal |-> subtotal, rows |-> <<>>]
  ELSE LET item == items[i]
           rest == line_item_loop(items, i + 1, y - 14,
                     accumulate(subtotal, extended_amount(item[4], item[5])),
                     width)
       IN  [rest EXCEPT !.rows = <<draw_row(item, y, i - 1, width)>> \o @]

draw_line_items(y_start, width, items) ==
  LET drawn(loop) ==
        [header   |-> <<30, y_start, width - 60, 18>>,
         columns  |-> <<"Code", "Description", "Format", "Qté", "Prix Unit.", "Montant">>,
         rows     |-> loop.rows,
         y        |-> loop.y,
         subtotal |-> loop.subtotal]
  IN  drawn(line_item_loop(items, 1, y_start - 5, FZero, width))

\* the float literals 0.05 and 0.09975 (= 399/4000) of draw_totals
GST_RATE == Dec(5)

QST_RATE == FFromRatio(BFromInt(399), 4000)

\* gst = taxable * 0.05
gst_of(taxable) == FMul(taxable, GST_RATE)

\* a slip: the provincial tax taken on the base plus the goods tax
qst_compounded(taxable) == FMul(FAdd(taxable, gst_of(taxable)), QST_RATE)

\* qst = taxable * 0.09975
qst_of(taxable) == FMul(taxable, QST_RATE)

\* the defaults of draw_totals' parameters freight and fuel
DEFAULT_FREIGHT == Dec(3500)

DEFAULT_FUEL == Dec(1250)

\* the values draw_totals works with: its freight and fuel parameters default
\* to 35.00 and 12.50 when the caller omits them
\* a slip: the parameter is ignored, the default always used
totals_freight_ignores(freight) == DEFAULT_FREIGHT

totals_freight(freight) == IF freight = None THEN DEFAULT_FREIGHT ELSE freight[1]

totals_fuel(fuel) == IF fuel = None THEN DEFAULT_FUEL ELSE fuel[1]

\* Each local of the function is bound once, in the order of its assignments:
\* LET f(v) == e IN f(x) reads "v = x; e".
draw_totals(y_start, width, subtotal, supplier_key, freight_arg, fuel_arg) ==
  LET box_height == 130
      y          == y_start - 15
      with_charges(freight, fuel) ==
        LET with_taxable(taxable) ==
              LET with_taxes(gst, qst) ==
                    LET with_total(total) ==
                          [box     |-> <<380, y_start - box_height, 185, box_height>>,
                           lines   |->
                             << <<y, "Sous-total / Subtotal:", Money(subtotal)>>,
                                <<y - 14, "Transport / Freight:", Money(freight)>>,
                                <<y - 28, "Surcharge carburant / Fuel:", Money(fuel)>>,
                                <<y - 42, "TPS/GST (5%):", Money(gst)>>,
                                <<y - 56, "TVQ/QST (9.975%):", Money(qst)>>,
                                <<y - 76, "TOTAL:", Money(total)>> >>,
                           rule_y   |-> y - 66,
                           subtotal |-> subtotal,
                           freight  |-> freight,
                           fuel     |-> fuel,
                           taxable  |-> taxable,
                           gst      |-> gst,
                           qst      |-> qst,
                           total    |-> total,
                           y        |-> y - 96]
                    IN  with_total(FAdd(FAdd(taxable, gst), qst))
              IN  with_taxes(gst_of(taxable), qst_of(taxable))
        IN  with_taxable(FAdd(FAdd(subtotal, freight), fuel))
  IN  with_charges(totals_freight(freight_arg), totals_fuel(fuel_arg))

\* a slip: the box drawn upward from y_start, not below it
draw_footer_upward(y_start, width, height, supplier_key) ==
  LET supplier == SUPPLIERS[supplier_key]
  IN  [box   |-> <<30, y_start, 320, 55>>,
       terms |-> << <<y_start - 15, "CONDITIONS / TERMS:">>,
                    <<y_start - 30, supplier.terms>>,
                    <<y_start - 45, "Veuillez référer au numéro de facture / Please reference invoice #">> >>,
       tax_numbers |-> << <<y_start - 15, "TPS/GST: " \o supplier.gst>>,
                          <<y_start - 30, "TVQ/QST: " \o supplier.qst>> >>,
       bar   |-> <<0, 25, width, 25>>,
       thanks |-> <<35, "Merci de votre confiance! | Thank you for your business!">>,
       page  |-> <<12, "Page 1 de 1">>]

draw_footer(y_start, width, height, supplier_key) ==
  LET supplier == SUPPLIERS[supplier_key]
  IN  [box   |-> <<30, y_start - 55, 320, 55>>,
       terms |-> << <<y_start - 15, "CONDITIONS / TERMS:">>,
                    <<y_start - 30, supplier.terms>>,
                    <<y_start - 45, "Veuillez référer au numéro de facture / Please reference invoice #">> >>,
       tax_numbers |-> << <<y_start - 15, "TPS/GST: " \o supplier.gst>>,
                          <<y_start - 30, "TVQ/QST: " \o supplier.qst>> >>,
       bar   |-> <<0, 25, width, 25>>,
       thanks |-> <<35, "Merci de votre confiance! | Thank you for your business!">>,
       page  |-> <<12, "Page 1 de 1">>]

\* str.upper() on the supplier keys
upper(supplier_key) ==
  CASE supplier_key = "norref"     -> "NORREF"
    [] supplier_key = "distrobec"  -> "DISTROBEC"
    [] supplier_key = "courchesne" -> "COURCHESNE"
    [] supplier_key = "carrousel"  -> "CARROUSEL"

\* os.path.join(a, b) for a relative b
path_join(a, b) ==
  IF a = "" THEN b
  ELSE IF SubSeq(a, Len(a), Len(a)) = "/" THEN a \o b
  ELSE a \o "/" \o b

(***************************************************************************)
(* The pseudo-random generator is an input of the model.  One outcome of   *)
(* the calls generate_invoice makes is a record                            *)
(*   [num_items |-> random.randint(8, 15),                                 *)
(*    sample    |-> the positions random.sample picks, in the order picked,*)
(*    qty       |-> the results of the calls random.randint(1, 5)].        *)
(* random.sample picks k distinct positions of the population; the model   *)
(* draws them from the runs of consecutive positions (wrapping around, in  *)
(* either direction) that start within the first MaxOffset + 1 positions,  *)
(* and the quantities from the runs 1 + ((q + i) mod 5), q = 0..4, which   *)
(* between them put every quantity at every place.                         *)
(***************************************************************************)
MaxOffset == 0

Samples(n, k) ==
  IF k = 0 THEN {<<>>}
  ELSE { [i \in 1..k |-> ((o + d * (i - 1)) % n) + 1] :
           o \in 0..Min(n - 1, MaxOffset), d \in {1, n - 1} }

Quantities(k) ==
  { [i \in 1..k |-> 1 + ((q + i - 1) % 5)] : q \in 0..4 }

RandomOutcomes(products_list) ==
  UNION { LET k == Min(num_items, Len(products_list))
          IN  { [num_items |-> num_items, sample |-> sample, qty |-> qty] :
                  sample \in Samples(Len(products_list), k), qty \in Quantities(k) } :
          num_items \in 8..15 }

\* a slip: random.choice for each place, here the same product every time
random_items_repeating(products_list, rng) ==
  LET k == Min(rng.num_items, Len(products_list))
  IN  [i \in 1..k |->
         LET product == products_list[rng.sample[1]]
         IN  <<product[1], product[2], product[3], rng.qty[i], product[4]>>]

\* the branch "if selected_items is None" under the outcome rng
random_items(products_list, rng) ==
  LET k == Min(rng.num_items, Len(products_list))
  IN  [i \in 1..k |->
         LET product == products_list[rng.sample[i]]
         IN  <<product[1], product[2], product[3], rng.qty[i], product[4]>>]

\* the numbers of the freight and fuel formulas: 25, 0.02, 8, 0.01
FREIGHT_BASE == FFromInt(25)

FREIGHT_RATE == Dec(2)

FUEL_BASE == FFromInt(8)

FUEL_RATE == Dec(1)

\* a slip: the rounding left out
freight_unrounded(subtotal) == FAdd(FREIGHT_BASE, FMul(subtotal, FREIGHT_RATE))

\* freight = round(25 + (subtotal * 0.02), 2)
freight_of(subtotal) == round2(FAdd(FREIGHT_BASE, FMul(subtotal, FREIGHT_RATE)))

\* fuel = round(8 + (subtotal * 0.01), 2)
fuel_of(subtotal) == round2(FAdd(FUEL_BASE, FMul(subtotal, FUEL_RATE)))

\* a slip: the items given are ignored
items_of_always_random(products_list, selected_items, rng) ==
  [items |-> random_items(products_list, rng), random |-> TRUE]

\* the items generate_invoice draws, and whether it called random for them
items_of(products_list, selected_items, rng) ==
  IF selected_items = None
  THEN [items |-> random_items(products_list, rng), random |-> TRUE]
  ELSE [items |-> selected_items[1], random |-> FALSE]

\* invoice_date and rng are the environment's: datetime.now() as "%d/%m/%Y",
\* and the outcome the random calls have if they are made
generate_invoice(supplier_key, products_list, invoice_num, po_num, output_dir, selected_items, invoice_date, rng) ==
  LET width     == letter[1]
      height    == letter[2]
      filename  == path_join(output_dir,
                     upper(supplier_key) \o "_INV_" \o invoice_num \o ".pdf")
      header    == draw_header(width, height, supplier_key, invoice_num,
                               invoice_date, po_num)
      addresses == draw_addresses(header.y - 15, supplier_key)
      chosen    == items_of(products_list, selected_items, rng)
      with_table(table) ==
        LET with_charges(freight, fuel) ==
              LET with_totals(totals) ==
                    [filename |-> filename,
                     total    |-> totals.total,
                     random   |-> chosen.random,
                     page     |-> [header    |-> header,
                                   addresses |-> addresses,
                                   table     |-> table,
                                   totals    |-> totals,
                                   footer    |-> draw_footer(totals.y - 20, width,
                                                             height, supplier_key)]]
              IN  with_totals(draw_totals(table.y - 20, width, table.subtotal,
                                          supplier_key, Some(freight), Some(fuel)))
        IN  with_charges(freight_of(table.subtotal), fuel_of(table.subtotal))
  IN  with_table(draw_line_items(addresses.y - 25, width, chosen.items))

(***************************************************************************)
(* main(): the four invoices, in the order of the source.                  *)
(***************************************************************************)
output_dir == "/home/claude/invoices"

SCENARIOS ==
  << [banner        |-> "Generating NORREF (Seafood) invoice...",
      label         |-> "Norref (Seafood)",
      supplier_key  |-> "norref",
      products_list |-> SEAFOOD_PRODUCTS,
      invoice_num   |-> "NRF-78234",
      po_num        |-> "PO-2025-1247",
      items         |-> seafood_items],
     [banner        |-> "Generating DISTROBEC (Meat) invoice...",
      label         |-> "Distrobec (Meat)",
      supplier_key  |-> "distrobec",
      products_list |-> MEAT_PRODUCTS,
      invoice_num   |-> "DST-45612",
      po_num        |-> "PO-2025-1248",
      items         |-> meat_items],
     [banner        |-> "Generating COURCHESNE LAROSE (Produce) invoice...",
      label         |-> "Courchesne Larose (Produce)",
      supplier_key  |-> "courchesne",
      products_list |-> PRODUCE_PRODUCTS,
      invoice_num   |-> "CLR-92341",
      po_num        |-> "PO-2025-1249",
      items         |-> produce_items],
     [banner        |-> "Generating CARROUSEL (Packaging) invoice...",
      label         |-> "Carrousel (Packaging)",
      supplier_key  |-> "carrousel",
      products_list |-> PACKAGING_PRODUCTS,
      invoice_num   |-> "CRS-12789",
      po_num        |-> "PO-2025-1250",
      items         |-> packaging_items] >>

Rule(n) == IF n = 60 THEN "============================================================"
           ELSE "--------------------------------------------------"

\* a slip: "grand_total = total" for "grand_total += total"
RECURSIVE summary_loop_overwrites(_, _, _)
summary_loop_overwrites(generated, i, grand_total) ==
  IF i > Len(generated) THEN [grand_total |-> grand_total, lines |-> <<>>]
  ELSE LET name  == generated[i][1]
           total == generated[i][3]
           rest  == summary_loop_overwrites(generated, i + 1, total)
       IN  [rest EXCEPT !.lines =
              <<"  " \o PadRight(name, 30) \o " $" \o PadLeft(Fixed2(total), 10)>> \o @]

\* the loop of the summary: grand_total += total, from invoice i on
RECURSIVE summary_loop(_, _, _)
summary_loop(generated, i, grand_total) ==
  IF i > Len(generated) THEN [grand_total |-> grand_total, lines |-> <<>>]
  ELSE LET name  == generated[i][1]
           total == generated[i][3]
           rest  == summary_loop(generated, i + 1, FAdd(grand_total, total))
       IN  [rest EXCEPT !.lines =
              <<"  " \o PadRight(name, 30) \o " $" \o PadLeft(Fixed2(total), 10)>> \o @]

(***************************************************************************)
(* start_server.py.  The handler answers every GET with the two headers    *)
(* end_headers adds; the file is found or not.                             *)
(***************************************************************************)
PORT == 8000

url == "http://localhost:" \o ToString(PORT) \o "/recipe-manager-voice.html"

\* the two send_header calls of MyHTTPRequestHandler.end_headers
NO_CACHE_HEADERS ==
  <<"Cache-Control: no-store, no-cache, must-revalidate", "Expires: 0">>

\* a slip: the base class is called first, the headers sent after the block
\* has ended
end_headers_late(buffer) == buffer \o <<"">> \o NO_CACHE_HEADERS

\* MyHTTPRequestHandler.end_headers: buffer is the status line and the
\* headers sent so far; the two headers are added, then the base class ends
\* the block with an empty line
end_headers(buffer) == buffer \o NO_CACHE_HEADERS \o <<"">>

\* the answer to GET path when the files of present are in DIRECTORY: the
\* base class sends the status line and its own headers (send_head for a
\* file found, send_error for one that is not) and calls end_headers
do_GET(path, present) ==
  IF path \in present
  THEN [path   |-> path,
        status |-> 200,
        head   |-> end_headers(<<"HTTP/1.0 200 OK", "Content-type: text/html">>)]
  ELSE [path   |-> path,
        status |-> 404,
        head   |-> end_headers(<<"HTTP/1.0 404 File not found",
                                 "Connection: close",
                                 "Content-Type: text/html;charset=utf-8">>)]

\* the lines main prints: lines 27-30, 35-47, 51, 54, 56-58, 63-66
TITLE_LINES ==
  <<Rule(60), "Kitchen Recipe Manager - Local Web Server", Rule(60), "">>

RUNNING_LINES ==
  <<"Server running on port " \o ToString(PORT),
    "Serving files from: DIRECTORY",
    "",
    "Open this URL in your browser:",
    "   " \o url,
    "",
    "Voice input will work when accessed via localhost!",
    "",
    "IMPORTANT: Use Chrome or Edge browser for best results",
    "",
    "Press Ctrl+C to stop the server",
    Rule(60),
    "">>

OPENING_LINE == "Opening browser automatically..."

NO_BROWSER_LINE == "Could not open browser automatically. Please open manually."

WAITING_LINES == <<"", "Server is running... waiting for requests...", "">>

GOODBYE_LINES == <<"", Rule(60), "Server stopped. Goodbye!", Rule(60)>>

(***************************************************************************)
(* The state of the invoice generator.                                     *)
(*   pc        where the Python process is: "loaded" (the module is        *)
(*             imported, nothing has run), "main" (main() is between two   *)
(*             invoices), "done" (main() returned), "returned" (a call     *)
(*             made by an importer returned), "crashed" (an exception      *)
(*             left the process)                                           *)
(*   call      the call an importer made: its function and arguments       *)
(*   ret       what the call (or main) returned                            *)
(*   canvas    what the importer's call drew                               *)
(*   files     the PDF files saved: file name -> page                      *)
(*   stdout    the lines printed                                           *)
(*   invoices_generated, grand_total   main's locals                       *)
(*   today     the environment's clock, an index into Dates                *)
(*   disk      the environment's file system: "ok", "no_dir" (the output   *)
(*             directory cannot be created), "read_only" (it cannot be     *)
(*             written)                                                    *)
(*   rng_calls how often the branch that calls random was taken            *)
(* The state of the server.                                                *)
(*   server_pc where main() of start_server.py is: "loaded", "bind" (line  *)
(*             32), "banner" (35-47), "browser" (50-54), "waiting" (56-58),*)
(*             "serving" (61), "stopping" (63-66), "leaving" (the end of   *)
(*             the with block, an exception pending or not), "exited"      *)
(*   httpd     the listening socket: "none", "listening", "closed"         *)
(*   port      the environment's port 8000: "free" or "in_use"             *)
(*   present   the environment's DIRECTORY: the paths that exist           *)
(*   console   the lines printed                                           *)
(*   interrupts  the interrupts (Ctrl+C) received so far                   *)
(*   responses the responses sent, each with the number of interrupts      *)
(*             received before it                                          *)
(*   exit_status "" while running, then "ok" or "traceback"                *)
(***************************************************************************)
VARIABLES pc, call, ret, canvas, files, stdout, invoices_generated,
          grand_total, today, disk, rng_calls,
          server_pc, httpd, port, present, console, interrupts, responses,
          exit_status

invoice_vars == <<pc, call, ret, canvas, files, stdout, invoices_generated,
                  grand_total, today, disk, rng_calls>>

server_vars == <<server_pc, httpd, port, present, console, interrupts,
                 responses, exit_status>>

vars == <<invoice_vars, server_vars>>

Dates == <<"05/11/2026", "06/11/2026">>

\* two of the outcomes the random calls can have, for the calls that are
\* given their items
SomeOutcomes(products_list) ==
  { rng \in RandomOutcomes(products_list) :
      rng.num_items = 8 /\ rng.sample[2] = 2 /\ rng.qty[1] \in {1, 2} }

\* the invoice generator before it runs
InvoiceLoaded ==
  /\ pc = "loaded"
  /\ call = None
  /\ ret = None
  /\ canvas = None
  /\ files = <<>>
  /\ stdout = <<>>
  /\ invoices_generated = <<>>
  /\ grand_total = FZero
  /\ today = 1
  /\ rng_calls = 0

\* the server before it runs
ServerLoaded ==
  /\ server_pc = "loaded"
  /\ httpd = "none"
  /\ console = <<>>
  /\ interrupts = 0
  /\ responses = <<>>
  /\ exit_status = ""

Init ==
  /\ InvoiceLoaded
  /\ disk \in {"ok", "no_dir", "read_only"}
  /\ ServerLoaded
  /\ port = "free"
  /\ present = {}

\* lines 497-507: the output directory and the banner
MainStart ==
  /\ pc = "loaded"
  /\ IF disk = "no_dir"
     THEN /\ pc' = "crashed"
          /\ UNCHANGED stdout
     ELSE /\ pc' = "main"
          /\ stdout' = stdout \o <<Rule(60), "KitchenCommand Invoice Test Suite Generator",
                                   Rule(60), "">>
  /\ invoices_generated' = <<>>
  /\ UNCHANGED <<call, ret, canvas, files, grand_total, today, disk, rng_calls>>
  /\ UNCHANGED server_vars

\* lines 509-527, 529-548, 550-573, 575-595: the next invoice
MainInvoice ==
  /\ pc = "main"
  /\ Len(invoices_generated) < Len(SCENARIOS)
  /\ LET sc == SCENARIOS[Len(invoices_generated) + 1]
         saved(inv) ==
           /\ pc' = "main"
           /\ rng_calls' = rng_calls + (IF inv.random THEN 1 ELSE 0)
           /\ files' = (inv.filename :> inv.page) @@ files
           /\ invoices_generated' =
                Append(invoices_generated, <<sc.label, inv.filename, inv.total>>)
           /\ stdout' = stdout \o <<sc.banner,
                                    \* the source prints U+2713 where "*" stands
                                    "   * Created: " \o inv.filename,
                                    "   Total: " \o Money(inv.total),
                                    "">>
         failed(chosen) ==
           \* c.save() raises: the exception leaves generate_invoice and main
           /\ pc' = "crashed"
           /\ rng_calls' = rng_calls + (IF chosen.random THEN 1 ELSE 0)
           /\ stdout' = stdout \o <<sc.banner>>
           /\ UNCHANGED <<files, invoices_generated>>
     IN  \E rng \in SomeOutcomes(sc.products_list) :
           IF disk # "ok"
           THEN failed(items_of(sc.products_list, Some(sc.items), rng))
           ELSE saved(generate_invoice(sc.supplier_key, sc.products_list,
                                       sc.invoice_num, sc.po_num, output_dir,
                                       Some(sc.items), Dates[today], rng))
  /\ UNCHANGED <<call, ret, canvas, grand_total, today, disk>>
  /\ UNCHANGED server_vars

\* lines 597-611: the summary
MainSummary ==
  /\ pc = "main"
  /\ Len(invoices_generated) = Len(SCENARIOS)
  /\ LET printed(loop) ==
           /\ grand_total' = loop.grand_total
           /\ stdout' = stdout \o <<Rule(60), "SUMMARY - Invoices Generated", Rule(60)>>
                        \o loop.lines
                        \o <<Rule(50),
                             "  " \o PadRight("GRAND TOTAL", 30) \o " $"
                               \o PadLeft(Fixed2(loop.grand_total), 10),
                             "",
                             "All invoices saved to: " \o output_dir,
                             "">>
     IN  printed(summary_loop(invoices_generated, 1, FZero))
  /\ ret' = Some(<<output_dir, invoices_generated>>)
  /\ pc' = "done"
  /\ UNCHANGED <<call, canvas, files, invoices_generated, today, disk, rng_calls>>
  /\ UNCHANGED server_vars

\* the environment: the date changes, the disk stops taking writes
Midnight ==
  /\ pc = "main"
  /\ today < Len(Dates)
  /\ today' = today + 1
  /\ UNCHANGED <<pc, call, ret, canvas, files, stdout, invoices_generated,
                 grand_total, disk, rng_calls>>
  /\ UNCHANGED server_vars

DiskFails ==
  /\ pc = "main"
  /\ disk = "ok"
  /\ disk' = "read_only"
  /\ UNCHANGED <<pc, call, ret, canvas, files, stdout, invoices_generated,
                 grand_total, today, rng_calls>>
  /\ UNCHANGED server_vars

(***************************************************************************)
(* Calls made by a program that imports the module.  The arguments are     *)
(* drawn from bounded sets: item lists of at most MaxItems items of        *)
(* ItemPool; catalogs of 0, 3 to 7, 10 and 17 products.  An exception leaves    *)
(* nothing behind but the crash.                                           *)
(***************************************************************************)
MaxItems == 3

ItemPool ==
  { <<"SF-10234", "SAUMON ATLANTIQUE FRAIS 10-12LB", "1/PC", 3, Dec(1485)>>,
    <<"SF-10512", "HOMARD VIVANT 1.25LB", "PC", 3, Dec(2895)>>,
    <<"XX-00032", "DESCRIPTION OF EXACTLY 32 CHARS.", "1/2LB", 3, Dec(845)>>,
    <<"XX-00033", "DESCRIPTION OF 33 CHARACTERS HERE", "KG", 1, Dec(185575)>> }

RECURSIVE ListsUpTo(_)
ListsUpTo(n) ==
  IF n = 0 THEN {<<>>}
  ELSE LET shorter == ListsUpTo(n - 1)
       IN  shorter \cup { Append(l, item) : l \in {s \in shorter : Len(s) = n - 1},
                                            item \in ItemPool }

ItemLists == ListsUpTo(MaxItems)

CallSuppliers == {"carrousel"}

CallCatalogs ==
  {<<>>, SubSeq(SEAFOOD_PRODUCTS, 1, 3), SubSeq(PRODUCE_PRODUCTS, 1, 10), MEAT_PRODUCTS}
    \cup { SubSeq(PACKAGING_PRODUCTS, 1, k) : k \in 4..7 }

\* the float arguments handed to draw_totals
CallSubtotals == {FZero, Dec(13330), Dec(185575), FMul(FFromInt(3), Dec(845))}

CallCharges == {None, Some(FZero), Some(Dec(3500)), Some(Dec(804)),
                Some(FAdd(FFromInt(25), FMul(Dec(13330), Dec(2))))}

\* generate_invoice(supplier_key, products_list, "TEST-0001", "PO-TEST", "out",
\*                  selected_items)
CallGenerateInvoice ==
  /\ pc = "loaded"
  /\ \E supplier_key \in CallSuppliers, products_list \in CallCatalogs,
        selected_items \in {None} \cup { Some(l) : l \in ItemLists } :
       /\ selected_items # None => products_list = MEAT_PRODUCTS
       /\ \E rng \in (IF selected_items = None THEN RandomOutcomes(products_list)
                      ELSE SomeOutcomes(products_list)) :
            LET saved(inv) ==
                  /\ pc' = "returned"
                  /\ rng_calls' = rng_calls + (IF inv.random THEN 1 ELSE 0)
                  /\ canvas' = Some(inv.page)
                  /\ ret' = Some(<<inv.filename, inv.total>>)
                  /\ files' = (inv.filename :> inv.page) @@ files
                failed(chosen) ==
                  \* c.save() raises
                  /\ pc' = "crashed"
                  /\ rng_calls' = rng_calls + (IF chosen.random THEN 1 ELSE 0)
                  /\ UNCHANGED <<ret, canvas, files>>
            IN  /\ call' = Some([fn |-> "generate_invoice",
                                 supplier_key |-> supplier_key,
                                 products_list |-> products_list,
                                 selected_items |-> selected_items,
                                 rng |-> IF selected_items = None THEN Some(rng)
                                         ELSE None])
                /\ IF disk # "ok"
                   THEN failed(items_of(products_list, selected_items, rng))
                   ELSE saved(generate_invoice(supplier_key, products_list,
                                               "TEST-0001", "PO-TEST", "out",
                                               selected_items, Dates[today], rng))
  /\ UNCHANGED <<stdout, invoices_generated, grand_total, today, disk>>
  /\ UNCHANGED server_vars

\* draw_totals(c, 300, 612, subtotal, supplier_key[, freight][, fuel])
CallDrawTotals ==
  /\ pc = "loaded"
  /\ \E subtotal \in CallSubtotals, freight \in CallCharges, fuel \in CallCharges :
       LET drawn(totals) ==
             /\ canvas' = Some([totals |-> totals])
             /\ ret' = Some(<<totals.y, totals.total>>)
       IN  /\ call' = Some([fn |-> "draw_totals", subtotal |-> subtotal,
                            freight |-> freight, fuel |-> fuel])
           /\ drawn(draw_totals(300, letter[1], subtotal, "norref", freight, fuel))
  /\ pc' = "returned"
  /\ UNCHANGED <<files, stdout, invoices_generated, grand_total, today, disk,
                 rng_calls>>
  /\ UNCHANGED server_vars

Next ==
  \/ MainStart
  \/ MainInvoice
  \/ MainSummary
  \/ Midnight
  \/ DiskFails
  \/ CallGenerateInvoice
  \/ CallDrawTotals

Spec == Init /\ [][Next]_vars

(***************************************************************************)
(* The server process.  An interrupt is the environment's: Python raises   *)
(* KeyboardInterrupt in the main thread wherever it is.                    *)
(***************************************************************************)
MaxRequests == 3

MaxInterrupts == 2

Paths == {"/recipe-manager-voice.html", "/favicon.ico"}

InitServer ==
  /\ InvoiceLoaded
  /\ disk = "ok"
  /\ ServerLoaded
  /\ port \in {"free", "in_use"}
  /\ present \in SUBSET {"/recipe-manager-voice.html"}

\* lines 27-30
ServerStart ==
  /\ server_pc = "loaded"
  /\ console' = console \o TITLE_LINES
  /\ server_pc' = "bind"
  /\ UNCHANGED <<httpd, port, present, interrupts, responses, exit_status>>
  /\ UNCHANGED invoice_vars

\* line 32: TCPServer(("", PORT), ...) binds and listens, or raises OSError
ServerBind ==
  /\ server_pc = "bind"
  /\ IF port = "in_use"
     THEN /\ server_pc' = "exited"
          /\ exit_status' = "traceback"
          /\ UNCHANGED httpd
     ELSE /\ server_pc' = "banner"
          /\ httpd' = "listening"
          /\ UNCHANGED exit_status
  /\ UNCHANGED <<port, present, console, interrupts, responses>>
  /\ UNCHANGED invoice_vars

\* lines 33-47
ServerBanner ==
  /\ server_pc = "banner"
  /\ console' = console \o RUNNING_LINES
  /\ server_pc' = "browser"
  /\ UNCHANGED <<httpd, port, present, interrupts, responses, exit_status>>
  /\ UNCHANGED invoice_vars

\* a slip: nothing catches what webbrowser.open raises, the exception leaves
\* the with block
ServerBrowser_uncaught ==
  /\ server_pc = "browser"
  /\ console' = console \o <<OPENING_LINE>>
  /\ \E outcome \in {"opened", "not_opened", "raised"} :
       IF outcome = "raised"
       THEN server_pc' = "leaving" /\ exit_status' = "traceback"
       ELSE server_pc' = "waiting" /\ UNCHANGED exit_status
  /\ UNCHANGED <<httpd, port, present, interrupts, responses>>
  /\ UNCHANGED invoice_vars

\* lines 50-54: webbrowser.open returns (a browser was found or not) or
\* raises; "except:" takes whatever is raised
ServerBrowser ==
  /\ server_pc = "browser"
  /\ \E outcome \in {"opened", "not_opened", "raised"} :
       console' = console \o <<OPENING_LINE>>
                  \o (IF outcome = "raised" THEN <<NO_BROWSER_LINE>> ELSE <<>>)
  /\ server_pc' = "waiting"
  /\ UNCHANGED <<httpd, port, present, interrupts, responses, exit_status>>
  /\ UNCHANGED invoice_vars

\* lines 56-58
ServerWaiting ==
  /\ server_pc = "waiting"
  /\ console' = console \o WAITING_LINES
  /\ server_pc' = "serving"
  /\ UNCHANGED <<httpd, port, present, interrupts, responses, exit_status>>
  /\ UNCHANGED invoice_vars

\* line 61: serve_forever handles one request
ServerRequest ==
  /\ server_pc = "serving"
  /\ Len(responses) < MaxRequests
  /\ \E path \in Paths :
       responses' = Append(responses,
                           [response |-> do_GET(path, present), after |-> interrupts])
  /\ UNCHANGED <<server_pc, httpd, port, present, console, interrupts, exit_status>>
  /\ UNCHANGED invoice_vars

\* Ctrl+C: KeyboardInterrupt is raised where main is.  Inside the first try
\* (lines 50-54) the bare "except:" takes it; inside the second (60-62)
\* "except KeyboardInterrupt:" takes it; before line 32 it leaves main;
\* anywhere else it leaves the with block and then main.
ServerInterrupt ==
  /\ server_pc \in {"loaded", "bind", "banner", "browser", "waiting", "serving",
                    "stopping"}
  /\ interrupts < MaxInterrupts
  /\ interrupts' = interrupts + 1
  /\ CASE server_pc \in {"loaded", "bind"} ->
            /\ server_pc' = "exited"
            /\ exit_status' = "traceback"
            /\ UNCHANGED console
       [] server_pc = "browser" ->
            /\ server_pc' = "waiting"
            /\ console' = console \o <<OPENING_LINE, NO_BROWSER_LINE>>
            /\ UNCHANGED exit_status
       [] server_pc = "serving" ->
            /\ server_pc' = "stopping"
            /\ UNCHANGED <<console, exit_status>>
       [] server_pc \in {"banner", "waiting", "stopping"} ->
            /\ server_pc' = "leaving"
            /\ exit_status' = "traceback"
            /\ UNCHANGED console
  /\ UNCHANGED <<httpd, port, present, responses>>
  /\ UNCHANGED invoice_vars

\* lines 63-66
ServerGoodbye ==
  /\ server_pc = "stopping"
  /\ console' = console \o GOODBYE_LINES
  /\ server_pc' = "leaving"
  /\ exit_status' = "ok"
  /\ UNCHANGED <<httpd, port, present, interrupts, responses>>
  /\ UNCHANGED invoice_vars

\* the end of the with block of line 32: TCPServer.__exit__ closes the
\* socket, then main returns or the pending exception goes on
ServerClose ==
  /\ server_pc = "leaving"
  /\ httpd' = "closed"
  /\ server_pc' = "exited"
  /\ UNCHANGED <<port, present, console, interrupts, responses, exit_status>>
  /\ UNCHANGED invoice_vars

NextServer ==
  \/ ServerStart
  \/ ServerBind
  \/ ServerBanner
  \/ ServerBrowser
  \/ ServerWaiting
  \/ ServerRequest
  \/ ServerInterrupt
  \/ ServerGoodbye
  \/ ServerClose

SpecServer == InitServer /\ [][NextServer]_vars

(***************************************************************************)
(* The two scripts on one machine, each in any environment it can meet:    *)
(* the output directory can be created or not, written or not; the port    *)
(* is free or bound; the page is in DIRECTORY or missing.  The processes   *)
(* share nothing, so the order in which they run does not matter: the      *)
(* invoice generator runs first, the server once it has ended.             *)
(***************************************************************************)
InitScripts ==
  /\ InvoiceLoaded
  /\ disk \in {"ok", "no_dir", "read_only"}
  /\ ServerLoaded
  /\ port \in {"free", "in_use"}
  /\ present \in SUBSET {"/recipe-manager-voice.html"}

InvoiceEnded == pc \in {"done", "crashed"}

NextScripts ==
  \/ MainStart
  \/ MainInvoice
  \/ MainSummary
  \/ DiskFails
  \/ InvoiceEnded /\ ServerStart
  \/ InvoiceEnded /\ ServerBind
  \/ InvoiceEnded /\ ServerBanner
  \/ InvoiceEnded /\ ServerBrowser
  \/ InvoiceEnded /\ ServerWaiting
  \/ InvoiceEnded /\ ServerRequest
  \/ InvoiceEnded /\ ServerInterrupt
  \/ InvoiceEnded /\ ServerGoodbye
  \/ InvoiceEnded /\ ServerClose

SpecScripts == InitScripts /\ [][NextScripts]_vars

(***************************************************************************)
(* Exact arithmetic for the properties.  An amount x (0, or at least       *)
(* 2^-12) is held as the natural number x * 2^64, so that sums and         *)
(* products by small integers are exact and can be compared with what the  *)
(* floats of the program hold.                                             *)
(***************************************************************************)
Exact(x) == BShl(x.m, x.e + 64)

ExactInt(n) == BShl(BFromInt(n), 64)

BDist(a, b) == IF BCmp(a, b) >= 0 THEN BSub(a, b) ELSE BSub(b, a)

\* |a - b| <= tol
Within(a, b, tol) == BCmp(BDist(a, b), tol) <= 0

\* 2^-20: far above the rounding error of a few float operations on amounts
\* below 2^20, far below a cent
Tiny == BShl(<<1>>, 44)

HalfAndTiny == BAdd(BShl(<<1>>, 63), Tiny)

\* the number of cents nearest to x
Cents(x) == BToInt(Hundredths(x))

\* x is the float of a decimal with two places
IsCents(x) == x = Dec(Cents(x))

\* charge is a whole number of cents, the one nearest (up to Tiny, on a tie
\* either neighbour) to base_cents/100 + percent/100 * subtotal
IsChargeFor(charge, base_cents, percent, subtotal) ==
  /\ IsCents(charge)
  /\ Within(ExactInt(Cents(charge)),
            BAdd(ExactInt(base_cents), BMulSmall(Exact(subtotal), percent)),
            HalfAndTiny)

\* the pages saved, and every totals block drawn
Pages == { files[f] : f \in DOMAIN files }

AllTotals ==
  { page.totals : page \in Pages }
    \cup (IF canvas # None /\ call[1].fn = "draw_totals" THEN {canvas[1].totals}
          ELSE {})

ReturnedFrom(fn) == pc = "returned" /\ call # None /\ call[1].fn = fn

RECURSIVE SumCents(_)
SumCents(items) ==
  IF items = <<>> THEN 0
  ELSE items[1][4] * Cents(items[1][5]) + SumCents(Tail(items))

Reorderings(items) ==
  { [i \in 1..Len(items) |-> items[p[i]]] : p \in Permutations(1..Len(items)) }

\* C1: for every list of line items given to draw_line_items the subtotal
\* returned is the sum of quantity x unit price over the items (the float
\* of that sum), and every permutation of the list gives the same subtotal.
C1_SubtotalIsTheSumInAnyOrder ==
  (ReturnedFrom("generate_invoice") /\ call[1].selected_items # None) =>
    /\ canvas[1].table.subtotal = Dec(SumCents(call[1].selected_items[1]))
    /\ \A other \in Reorderings(call[1].selected_items[1]) :
         draw_line_items(0, letter[1], other).subtotal = canvas[1].table.subtotal

\* C2: on every invoice generate_invoice hands the totals block
\* freight = round(25 + 0.02 S, 2) and fuel = round(8 + 0.01 S, 2) for the
\* subtotal S of its table: whole cents, nearest to the formula's value; an
\* invoice without line items gets freight 25.00 and fuel 8.00.
C2_FreightAndFuelFollowTheSubtotal ==
  \A page \in Pages :
    /\ IsChargeFor(page.totals.freight, 2500, 2, page.table.subtotal)
    /\ IsChargeFor(page.totals.fuel, 800, 1, page.table.subtotal)
    /\ page.totals.subtotal = page.table.subtotal
    /\ page.table.rows = <<>> =>
         /\ page.table.subtotal = FZero
         /\ page.totals.freight = Dec(2500)
         /\ page.totals.fuel = Dec(800)
         /\ page.totals.lines[2][3] = "$25.00"
         /\ page.totals.lines[3][3] = "$8.00"

\* an invoice of 1,855.75 (where 25 + 0.02 S falls on a half cent) and one
\* without line items have been generated
C2_Witness ==
  /\ ReturnedFrom("generate_invoice")
  /\ canvas[1].table.subtotal = Dec(185575)
  /\ canvas[1].totals.freight # Dec(2500)

C2_WitnessEmpty ==
  /\ ReturnedFrom("generate_invoice")
  /\ canvas[1].table.rows = <<>>

\* C3: draw_totals takes both taxes on the same base B = subtotal + freight
\* + fuel: tax A = 0.05 B, tax B = 0.09975 B (never 0.09975 (B + tax A)),
\* and the total is B + tax A + tax B.
C3_TaxesAreAdditive ==
  \A t \in AllTotals :
    /\ Within(Exact(t.taxable),
              BAdd(BAdd(Exact(t.subtotal), Exact(t.freight)), Exact(t.fuel)), Tiny)
    /\ Within(BMulSmall(Exact(t.gst), 20), Exact(t.taxable), Tiny)
    /\ Within(BMulSmall(Exact(t.qst), 4000), BMulSmall(Exact(t.taxable), 399), Tiny)
    /\ Within(Exact(t.total),
              BAdd(BAdd(Exact(t.taxable), Exact(t.gst)), Exact(t.qst)), Tiny)
    /\ t.taxable # FZero =>
         ~Within(BMulSmall(Exact(t.qst), 4000),
                 BMulSmall(BAdd(Exact(t.taxable), Exact(t.gst)), 399), Tiny)

\* draw_totals was called with a subtotal, a freight and a fuel of its own
C3_Witness ==
  /\ ReturnedFrom("draw_totals")
  /\ call[1].subtotal = Dec(13330)
  /\ call[1].freight = Some(Dec(3500))
  /\ call[1].fuel = Some(Dec(804))
  /\ canvas[1].totals.qst # FZero

\* the saved file of main's k-th invoice
MAIN_FILES ==
  <<"/home/claude/invoices/NORREF_INV_NRF-78234.pdf",
    "/home/claude/invoices/DISTROBEC_INV_DST-45612.pdf",
    "/home/claude/invoices/COURCHESNE_INV_CLR-92341.pdf",
    "/home/claude/invoices/CARROUSEL_INV_CRS-12789.pdf">>

\* the total drawn is (subtotal + freight + fuel) x 1.14975 to the cent:
\* in cents, |T - 1.14975 (S + F + U)| <= 1/2
TotalToTheCent(t) ==
  Within(BMul(BFromInt(Cents(t.total)), BFromInt(100000)),
         BMul(BFromInt(Cents(t.subtotal) + Cents(t.freight) + Cents(t.fuel)),
              BFromInt(114975)),
         BFromInt(50000))

\* C4 as stated: main's seafood invoice, 10 line items, has subtotal
\* 1,855.75, freight 62.12 and fuel 26.56, and its total is (subtotal +
\* freight + fuel) x (1 + 0.05 + 0.09975) to the cent.
C4_SeafoodAsStated ==
  MAIN_FILES[1] \in DOMAIN files =>
    /\ Len(files[MAIN_FILES[1]].table.rows) = 10
    /\ files[MAIN_FILES[1]].totals.lines[1][3] = "$1,855.75"
    /\ files[MAIN_FILES[1]].totals.lines[2][3] = "$62.12"
    /\ files[MAIN_FILES[1]].totals.lines[3][3] = "$26.56"
    /\ TotalToTheCent(files[MAIN_FILES[1]].totals)

\* C4 as amended: main's seafood invoice, 10 line items, has subtotal
\* 2,001.45, freight 65.03 and fuel 28.01, and its total, 2,408.14, is
\* (subtotal + freight + fuel) x (1 + 0.05 + 0.09975) to the cent.
C4_SeafoodAsComputed ==
  MAIN_FILES[1] \in DOMAIN files =>
    /\ Len(files[MAIN_FILES[1]].table.rows) = 10
    /\ files[MAIN_FILES[1]].totals.lines[1][3] = "$2,001.45"
    /\ files[MAIN_FILES[1]].totals.lines[2][3] = "$65.03"
    /\ files[MAIN_FILES[1]].totals.lines[3][3] = "$28.01"
    /\ files[MAIN_FILES[1]].totals.lines[6][3] = "$2,408.14"
    /\ files[MAIN_FILES[1]].totals.freight = Dec(6503)
    /\ files[MAIN_FILES[1]].totals.fuel = Dec(2801)
    /\ Cents(files[MAIN_FILES[1]].totals.subtotal) = 200145
    /\ TotalToTheCent(files[MAIN_FILES[1]].totals)

\* main has saved the seafood invoice and no other yet
C4_Witness ==
  /\ pc = "main"
  /\ Len(invoices_generated) = 1
  /\ MAIN_FILES[1] \in DOMAIN files

\* a freight or fuel given to draw_totals is the one it uses, unmodified, in
\* the base and in the line drawn
GivenChargesAreUsed(c, t) ==
  /\ c.freight # None => t.freight = c.freight[1]
  /\ c.fuel # None => t.fuel = c.fuel[1]
  /\ t.subtotal = c.subtotal
  /\ Within(Exact(t.taxable),
            BAdd(BAdd(Exact(c.subtotal), Exact(t.freight)), Exact(t.fuel)), Tiny)
  /\ t.lines[2][3] = Money(t.freight)
  /\ t.lines[3][3] = Money(t.fuel)

\* C5 as stated: a freight or fuel that is supplied is used unmodified in
\* the taxable base and in the rendering; one that is not supplied is the
\* formula's value, 25 + 2% or 8 + 1% of the subtotal.
C5_ChargesGivenOrFormula ==
  ReturnedFrom("draw_totals") =>
    /\ GivenChargesAreUsed(call[1], canvas[1].totals)
    /\ call[1].freight = None =>
         IsChargeFor(canvas[1].totals.freight, 2500, 2, call[1].subtotal)
    /\ call[1].fuel = None =>
         IsChargeFor(canvas[1].totals.fuel, 800, 1, call[1].subtotal)

\* C5 as amended: draw_totals uses a freight or fuel that is supplied
\* unmodified in the taxable base and in the rendering; one that is not
\* supplied is the fixed default, 35.00 for freight and 12.50 for fuel;
\* generate_invoice takes no override and always supplies the formula's
\* values.
C5_ChargesGivenOrDefault ==
  /\ ReturnedFrom("draw_totals") =>
       /\ GivenChargesAreUsed(call[1], canvas[1].totals)
       /\ call[1].freight = None => canvas[1].totals.freight = Dec(3500)
       /\ call[1].fuel = None => canvas[1].totals.fuel = Dec(1250)
  /\ \A page \in Pages :
       /\ IsChargeFor(page.totals.freight, 2500, 2, page.table.subtotal)
       /\ IsChargeFor(page.totals.fuel, 800, 1, page.table.subtotal)
       /\ page.totals.lines[2][3] = Money(page.totals.freight)
       /\ page.totals.lines[3][3] = Money(page.totals.fuel)

\* draw_totals was called with a freight of its own and no fuel
C5_Witness ==
  /\ ReturnedFrom("draw_totals")
  /\ call[1].freight = Some(Dec(804))
  /\ call[1].fuel = None
  /\ canvas[1].totals.lines[2][3] = "$8.04"
  /\ canvas[1].totals.lines[3][3] = "$12.50"

RandomCallReturned ==
  ReturnedFrom("generate_invoice") /\ call[1].selected_items = None

\* the rows are pairwise distinct entries of the catalog, each with a
\* quantity from 1 to 5
RowsAreDistinctEntries(rows, catalog) ==
  /\ \A i \in 1..Len(rows) :
       /\ \E j \in 1..Len(catalog) :
            /\ rows[i].code = catalog[j][1]
            /\ rows[i].pack = catalog[j][3]
            /\ rows[i].unit_price = Money(catalog[j][4])
       /\ rows[i].qty \in {"1", "2", "3", "4", "5"}
  /\ \A i, k \in 1..Len(rows) : i # k => rows[i].code # rows[k].code

\* C6 as stated: without an explicit item list, for any catalog,
\* generate_invoice selects between 8 and 15 items, pairwise distinct
\* catalog entries, each with a quantity from 1 to 5.
C6_RandomItemsAsStated ==
  RandomCallReturned =>
    /\ Len(canvas[1].table.rows) \in 8..15
    /\ RowsAreDistinctEntries(canvas[1].table.rows, call[1].products_list)

\* C6 as amended: without an explicit item list generate_invoice selects
\* min(k, n) items, k drawn from 8..15 and n the size of the catalog: between
\* 8 and 15 when the catalog has at least 8 entries, all n entries when it
\* has fewer; they are pairwise distinct catalog entries, each with a
\* quantity from 1 to 5.
C6_RandomItemsUpToCatalogSize ==
  RandomCallReturned =>
    /\ call[1].rng[1].num_items \in 8..15
    /\ Len(canvas[1].table.rows) =
         Min(call[1].rng[1].num_items, Len(call[1].products_list))
    /\ Len(canvas[1].table.rows) >= Min(8, Len(call[1].products_list))
    /\ Len(canvas[1].table.rows) <= Min(15, Len(call[1].products_list))
    /\ Len(call[1].products_list) >= 8 => Len(canvas[1].table.rows) \in 8..15
    /\ RowsAreDistinctEntries(canvas[1].table.rows, call[1].products_list)
    /\ rng_calls = 1

\* the random branch ran on a catalog of three products
C6_Witness ==
  /\ RandomCallReturned
  /\ Len(call[1].products_list) = 3
  /\ Len(canvas[1].table.rows) = 3

\* out is desc as the claim has it drawn
DrawnAs(desc, out) ==
  IF Len(desc) > 32
  THEN /\ Len(out) = 32
       /\ SubSeq(out, 1, 30) = SubSeq(desc, 1, 30)
       /\ SubSeq(out, 31, 32) = ".."
  ELSE out = desc

\* the items with every description cut to 30 characters at most
Shortened(items) ==
  [i \in 1..Len(items) |->
     <<items[i][1], SubSeq(items[i][2], 1, Min(Len(items[i][2]), 30)),
       items[i][3], items[i][4], items[i][5]>>]

SameAmounts(table, plain) ==
  /\ table.subtotal = plain.subtotal
  /\ Len(table.rows) = Len(plain.rows)
  /\ \A i \in 1..Len(table.rows) :
       /\ table.rows[i].extended = plain.rows[i].extended
       /\ table.rows[i].unit_price = plain.rows[i].unit_price
       /\ table.rows[i].qty = plain.rows[i].qty

RowsFollow(table, items) ==
  /\ Len(table.rows) = Len(items)
  /\ \A i \in 1..Len(items) : DrawnAs(items[i][2], table.rows[i].desc)
  /\ SameAmounts(table, draw_line_items(0, letter[1], Shortened(items)))

\* C7: a description of more than 32 characters is drawn as its first 30
\* characters and "..", a shorter one unchanged, and the amounts of the row
\* and the subtotal are those of the same items with short descriptions.
C7_LongDescriptionsAreCut ==
  /\ (ReturnedFrom("generate_invoice") /\ call[1].selected_items # None) =>
       RowsFollow(canvas[1].table, call[1].selected_items[1])
  /\ call = None =>
       \A k \in 1..Len(invoices_generated) :
         RowsFollow(files[invoices_generated[k][2]].table, SCENARIOS[k].items)

\* an invoice was drawn whose second item has a description of 33
\* characters and whose first has one of 32
C7_Witness ==
  /\ ReturnedFrom("generate_invoice")
  /\ call[1].selected_items # None
  /\ Len(canvas[1].table.rows) = 2
  /\ canvas[1].table.rows[1].desc = "DESCRIPTION OF EXACTLY 32 CHARS."
  /\ call[1].selected_items[1][2][2] = "DESCRIPTION OF 33 CHARACTERS HERE"
  /\ canvas[1].table.rows[2].desc = "DESCRIPTION OF 33 CHARACTERS H.."

MAIN_LABELS ==
  <<"Norref (Seafood)", "Distrobec (Meat)", "Courchesne Larose (Produce)",
    "Carrousel (Packaging)">>

\* the exact sum of the totals collected
RECURSIVE SumOfTotals(_)
SumOfTotals(generated) ==
  IF generated = <<>> THEN <<>>
  ELSE BAdd(Exact(generated[1][3]), SumOfTotals(Tail(generated)))

\* C8: main generates its invoices one after the other in the order
\* seafood, meat, produce, packaging, collecting for each its label, its
\* file and its total; when it is done there are exactly four, and the
\* grand total of the summary is the sum of the four totals.
C8_FourInvoicesInOrder ==
  call = None =>
    /\ Len(invoices_generated) <= 4
    /\ DOMAIN files = { MAIN_FILES[k] : k \in 1..Len(invoices_generated) }
    /\ \A k \in 1..Len(invoices_generated) :
         /\ invoices_generated[k][1] = MAIN_LABELS[k]
         /\ invoices_generated[k][2] = MAIN_FILES[k]
         /\ invoices_generated[k][3] = files[MAIN_FILES[k]].totals.total
         /\ files[MAIN_FILES[k]].header.name = SUPPLIERS[SCENARIOS[k].supplier_key].name
    /\ pc = "done" =>
         /\ Len(invoices_generated) = 4
         /\ ret = Some(<<output_dir, invoices_generated>>)
         /\ Within(Exact(grand_total), SumOfTotals(invoices_generated), Tiny)
         /\ stdout[Len(stdout) - 3] =
              "  " \o PadRight("GRAND TOTAL", 30) \o " $" \o PadLeft("9,098.42", 10)

\* main has returned, on the day it started
C8_Witness ==
  /\ pc = "done"
  /\ today = 1
  /\ Len(invoices_generated) = 4

\* the (label, total) pairs of every run of main, the totals as the floats
\* 2408.1398775000002, 3425.7721049999996, 1645.315245, 1619.1929249999998
EXPECTED_PAIRS ==
  << <<"Norref (Seafood)", [m |-> <<4069, 15372, 16670, 150>>, e |-> -41]>>,
     <<"Distrobec (Meat)", [m |-> <<14375, 8881, 3629, 214>>, e |-> -41]>>,
     <<"Courchesne Larose (Produce)", [m |-> <<21737, 7979, 21771, 205>>, e |-> -42]>>,
     <<"Carrousel (Packaging)", [m |-> <<5714, 7235, 13078, 202>>, e |-> -42]>> >>

\* C9: main gives every call of generate_invoice its items, so no run of
\* main takes the random branch, and every run collects the same (label,
\* total) pairs, whatever the random generator and the clock would give.
C9_MainIsDeterministic ==
  call = None =>
    /\ rng_calls = 0
    /\ Len(invoices_generated) <= Len(EXPECTED_PAIRS)
    /\ \A k \in 1..Len(invoices_generated) :
         <<invoices_generated[k][1], invoices_generated[k][3]>> = EXPECTED_PAIRS[k]

\* main has returned after a run that went past midnight
C9_Witness ==
  /\ pc = "done"
  /\ today = 2
  /\ Len(invoices_generated) = 4
  /\ files[MAIN_FILES[1]].header.details[2][3] # files[MAIN_FILES[4]].header.details[2][3]

Printed(line) == \E i \in 1..Len(console) : console[i] = line

\* C10: once the port is bound the server keeps serving until an interrupt;
\* after an interrupt it prints the confirmation, closes the socket and only
\* then exits: no run ends with the port bound, none answers a request after
\* an interrupt.
C10_InterruptStopsTheServer ==
  /\ (httpd = "listening" /\ interrupts = 0) =>
       server_pc \in {"banner", "browser", "waiting", "serving"}
  /\ (server_pc = "exited" /\ httpd # "none") =>
       /\ interrupts > 0
       /\ Printed("Server stopped. Goodbye!")
       /\ httpd = "closed"
  /\ server_pc = "exited" => httpd # "listening"
  /\ \A i \in 1..Len(responses) : responses[i].after = 0

\* what fails of C10: a request is answered after an interrupt
C10_ServedAfterInterrupt ==
  \E i \in 1..Len(responses) : responses[i].after > 0

\* the place of the first line of head that is text, 0 if there is none
FirstPlace(head, text) ==
  IF \E i \in 1..Len(head) : head[i] = text
  THEN CHOOSE i \in 1..Len(head) :
         head[i] = text /\ \A j \in 1..(i - 1) : head[j] # text
  ELSE 0

\* the header is in the block: after the status line, before the empty
\* line that ends the block
InHeaderBlock(head, header) ==
  /\ FirstPlace(head, header) > 1
  /\ FirstPlace(head, header) < FirstPlace(head, "")

\* C11: every response sent, with status 200 or not found, carries the
\* headers Cache-Control: no-store, no-cache, must-revalidate and
\* Expires: 0, both added before the header block is ended.
C11_EveryResponseForbidsCaching ==
  \A i \in 1..Len(responses) :
    /\ responses[i].response.status \in {200, 404}
    /\ responses[i].response.status = 200 <=> responses[i].response.path \in present
    /\ FirstPlace(responses[i].response.head, "") = Len(responses[i].response.head)
    /\ InHeaderBlock(responses[i].response.head,
                     "Cache-Control: no-store, no-cache, must-revalidate")
    /\ InHeaderBlock(responses[i].response.head, "Expires: 0")

\* a file was served and a request for a missing one was answered
C11_Witness ==
  /\ \E i \in 1..Len(responses) : responses[i].response.status = 200
  /\ \E i \in 1..Len(responses) : responses[i].response.status = 404

\* what the invoice generator leaves when it cannot create its directory or
\* write a file: the files saved before, no later invoice, no summary
InvoiceFailureIsFatal ==
  /\ disk = "no_dir" =>
       /\ pc \in {"loaded", "crashed"}
       /\ stdout = <<>>
       /\ invoices_generated = <<>>
  /\ pc = "crashed" =>
       /\ disk # "ok"
       /\ ret = None
       /\ grand_total = FZero
       /\ Len(invoices_generated) < Len(SCENARIOS)
       /\ DOMAIN files = { MAIN_FILES[k] : k \in 1..Len(invoices_generated) }
       /\ \A i \in 1..Len(stdout) : stdout[i] # "SUMMARY - Invoices Generated"
  /\ pc = "done" => Len(invoices_generated) = Len(SCENARIOS)

\* a port already bound ends the server before it announces or serves
PortInUseIsFatal ==
  port = "in_use" =>
    /\ server_pc \in {"loaded", "bind", "exited"}
    /\ httpd = "none"
    /\ responses = <<>>
    /\ \A i \in 1..Len(console) : console[i] \in { TITLE_LINES[j] : j \in 1..Len(TITLE_LINES) }
    /\ server_pc = "exited" => exit_status = "traceback"

\* C12 as stated: in both scripts only the interrupt of the server is
\* handled; a port already bound, a browser that cannot be launched, a
\* missing file, an output directory or file that cannot be written end the
\* process before any later step: once the browser launch has raised, the
\* server neither waits for nor answers requests.
C12_OnlyTheInterruptIsHandled ==
  /\ InvoiceFailureIsFatal
  /\ PortInUseIsFatal
  /\ Printed(NO_BROWSER_LINE) =>
       /\ server_pc \notin {"waiting", "serving", "stopping"}
       /\ responses = <<>>
       /\ exit_status # "ok"

\* C12, amended: two conditions are handled by the server: an interrupt in
\* the serve loop (the confirmation is printed, the exit is clean) and
\* whatever the browser launch raises (a line is printed and the server goes
\* on to serve); a missing file is answered 404.  The server ends with a
\* traceback only when the port is bound, before it announces or serves,
\* or on an interrupt.  The invoice generator handles nothing: a directory
\* that cannot be created or a file that cannot be written ends it with no
\* later invoice and no summary.
C12_HandledAndFatalFailures ==
  /\ InvoiceFailureIsFatal
  /\ PortInUseIsFatal
  /\ (port = "free" /\ interrupts = 0) =>
       /\ exit_status = ""
       /\ server_pc \notin {"leaving", "exited"}
  /\ Printed(NO_BROWSER_LINE) =>
       /\ Printed(OPENING_LINE)
       /\ httpd # "none"
       /\ server_pc \in {"waiting", "serving", "stopping", "leaving", "exited"}
  /\ exit_status = "ok" =>
       /\ interrupts > 0
       /\ Printed("Server stopped. Goodbye!")

\* the third invoice could not be written; later the browser launch raised
\* with no interrupt, and the server answers: a missing file has got a 404
C12_Witness ==
  /\ pc = "crashed"
  /\ Len(invoices_generated) = 2
  /\ Printed(NO_BROWSER_LINE)
  /\ interrupts = 0
  /\ server_pc = "serving"
  /\ \E i \in 1..Len(responses) : responses[i].response.status = 404

\* no two entries of the catalog have the same item code
CodesAreUnique(products_list) ==
  \A i, j \in 1..Len(products_list) :
    products_list[i][1] = products_list[j][1] => i = j

\* the line item has the code, description, pack and unit price of an entry
AgreesWith(item, products_list) ==
  \E i \in 1..Len(products_list) :
    /\ products_list[i][1] = item[1]
    /\ products_list[i][2] = item[2]
    /\ products_list[i][3] = item[3]
    /\ products_list[i][4] = item[5]

\* the items of the k-th call of main agree with the catalog of that call
CallAgrees(k) ==
  \A i \in 1..Len(SCENARIOS[k].items) :
    AgreesWith(SCENARIOS[k].items[i], SCENARIOS[k].products_list)

\* C13: item codes are unique within each of the four catalogs, and every
\* line item main has passed to generate_invoice has the item code,
\* description, pack and unit price of one entry of the catalog passed in
\* the same call.
C13_ItemsComeFromTheCatalog ==
  /\ CodesAreUnique(SEAFOOD_PRODUCTS)
  /\ CodesAreUnique(MEAT_PRODUCTS)
  /\ CodesAreUnique(PRODUCE_PRODUCTS)
  /\ CodesAreUnique(PACKAGING_PRODUCTS)
  /\ \A k \in 1..Len(invoices_generated) : CallAgrees(k)

\* the edges of a rectangle <<x, y, width, height>>
Bottom(rect) == rect[2]

Top(rect) == rect[2] + rect[4]

\* the lowest point of the table: the band of its last row, or its header
\* when it has no row
TableBottom(table) ==
  IF table.rows = <<>> THEN Bottom(table.header)
  ELSE table.rows[Len(table.rows)].y - 4

\* the sections of the page from the table down, each below the one before,
\* the last above the bottom bar, all of them on the page
InDescendingOrder(page) ==
  /\ Len(page.table.rows) <= 15
  /\ \A i \in 1..(Len(page.table.rows) - 1) :
       page.table.rows[i + 1].y < page.table.rows[i].y
  /\ Top(page.header.bar) = letter[2]
  /\ Top(page.table.header) < page.addresses.bill_to[5][1]
  /\ Top(page.totals.box) < TableBottom(page.table)
  /\ \A i \in 1..Len(page.totals.lines) :
       /\ page.totals.lines[i][1] < Top(page.totals.box)
       /\ page.totals.lines[i][1] > Bottom(page.totals.box)
  /\ Top(page.footer.box) < Bottom(page.totals.box)
  /\ \A i \in 1..Len(page.footer.terms) :
       /\ page.footer.terms[i][1] < Top(page.footer.box)
       /\ page.footer.terms[i][1] > Bottom(page.footer.box)
  /\ \A i \in 1..Len(page.footer.tax_numbers) :
       page.footer.tax_numbers[i][1] > Bottom(page.footer.box)
  /\ Top(page.footer.bar) = 50
  /\ Bottom(page.footer.box) > Top(page.footer.bar)
  /\ Bottom(page.footer.bar) > page.footer.page[1]
  /\ page.footer.page[1] > 0

\* C14: on every page saved, of 0 to 15 line items, the totals box starts
\* below the last item row, the footer box below the totals block, and the
\* bottom of the footer box is above the top of the bottom bar (y = 50) of
\* the 792-point page: nothing is drawn into the bar or off the page.
C14_SectionsInDescendingOrder == \A page \in Pages : InDescendingOrder(page)

\* a page of 15 rows, the footer box reaching down to y = 131
C14_Witness ==
  \E page \in Pages :
    /\ Len(page.table.rows) = 15
    /\ Bottom(page.footer.box) = 131
    /\ Top(page.totals.box) = 317

====
